---- MODULE Spec2Model ----
(***************************************************************************)
(* A model of backend/main.py, the DFIR Workbench API: the four            *)
(* POST /analyze handlers and the two GET /results_file handlers, over an  *)
(* abstract POSIX file system.                                             *)
(*                                                                         *)
(* A path string is a sequence of tokens; the token "/" is the separator  *)
(* and every other token is an indivisible piece of text ("evtx1.evtx",   *)
(* "-hayabusa-report.jsonl", "..").  A canonical path is the sequence of   *)
(* its components, each component a sequence of tokens; the root is <<>>.  *)
(* The file system maps the canonical paths that exist to their entries.   *)
(***************************************************************************)
EXTENDS Naturals, Sequences, FiniteSets

VARIABLES fs, req, loop, nruns

vars == <<fs, req, loop, nruns>>

\* ------------------------------------------------------------------ bounds

\* Client connections the server holds at once.
NumClients == 2

\* Subprocesses spawned in one behaviour.
MaxRuns == 2

Reqs == 1..NumClients

\* ------------------------------------------------------------ path strings

Sep == "/"
ReportSuffix == "-hayabusa-report.jsonl"
AnalysisSuffix == "-takajo-analysis"

RECURSIVE SplitAcc(_, _, _)
SplitAcc(s, cur, acc) ==
    IF s = <<>> THEN Append(acc, cur)
    ELSE IF Head(s) = Sep THEN SplitAcc(Tail(s), <<>>, Append(acc, cur))
    ELSE SplitAcc(Tail(s), Append(cur, Head(s)), acc)

\* The components of a path string, empty ones included.
Split(s) == SplitAcc(s, <<>>, <<>>)

IsAbs(s) == s # <<>> /\ Head(s) = Sep

\* os.path.join(a, b) and PurePath.joinpath: an absolute b replaces a.
PathJoin(a, b) == IF IsAbs(b) THEN b ELSE a \o <<Sep>> \o b

Parent(p) == IF p = <<>> THEN p ELSE SubSeq(p, 1, Len(p) - 1)

RECURSIVE NormAcc(_, _)
NormAcc(comps, acc) ==
    IF comps = <<>> THEN acc
    ELSE LET c == Head(comps) IN
         IF c = <<>> \/ c = <<".">> THEN NormAcc(Tail(comps), acc)
         ELSE IF c = <<"..">> THEN NormAcc(Tail(comps), Parent(acc))
         ELSE NormAcc(Tail(comps), Append(acc, c))

\* The lexical normal form of an absolute path string (os.path.normpath, and
\* Path.resolve() on a file system without symbolic links).
NormPath(s) == NormAcc(Split(s), <<>>)

RECURSIVE ToStr(_)
\* The path string of a canonical path.
ToStr(p) == IF p = <<>> THEN <<>> ELSE <<Sep>> \o Head(p) \o ToStr(Tail(p))

RECURSIVE RelStr(_)
\* str() of a relative path: its components joined by the separator.
RelStr(p) ==
    IF p = <<>> THEN <<>>
    ELSE IF Len(p) = 1 THEN Head(p)
    ELSE Head(p) \o <<Sep>> \o RelStr(Tail(p))

\* The server's working directory, against which os.path.abspath completes a
\* relative path.
Cwd == <<Sep, "app">>

\* os.path.abspath(s)
AbsPath(s) == ToStr(NormPath(PathJoin(Cwd, s)))

\* str.replace(old, new): every occurrence, wherever it stands.
StrReplace(s, old, new) == [i \in 1..Len(s) |-> IF s[i] = old THEN new ELSE s[i]]

\* ".." in s
HasDotDot(s) == \E i \in 1..Len(s) : s[i] = ".."

\* urllib.parse.unquote on the encoded tokens the clients send.
Unquote(s) ==
    [i \in 1..Len(s) |-> IF s[i] = "%2e%2e" THEN ".."
                         ELSE IF s[i] = "%2f" THEN Sep ELSE s[i]]

IsPrefix(p, q) == Len(p) <= Len(q) /\ SubSeq(q, 1, Len(p)) = p

\* base in path.parents: base is a proper ancestor of path.
StrictlyInside(base, path) == Len(base) < Len(path) /\ IsPrefix(base, path)

\* ---------------------------------------------------------------- constants

TOOLS_DIR == <<Sep, "tools">>
DATA_DIR == <<Sep, "data">>
RESULTS_DIR == <<Sep, "data", Sep, "results">>

HAYABUSA_DIR == PathJoin(TOOLS_DIR, <<"hayabusa">>)
CHAINSAW_DIR == PathJoin(TOOLS_DIR, <<"chainsaw">>)
TAKAJO_DIR == PathJoin(TOOLS_DIR, <<"takajo">>)

HAYABUSA_PATH == PathJoin(HAYABUSA_DIR, <<"hayabusa">>)
CHAINSAW_PATH == PathJoin(CHAINSAW_DIR, <<"chainsaw">>)
TAKAJO_PATH == PathJoin(TAKAJO_DIR, <<"takajo">>)

\* -------------------------------------------------------------- file system

File(w, ls) == [kind |-> "file", writers |-> w, lines |-> ls]
Dir == [kind |-> "dir", writers |-> {}, lines |-> <<>>]

IsDirC(f, p) == p = <<>> \/ (p \in DOMAIN f /\ f[p].kind = "dir")
IsFileC(f, p) == p \in DOMAIN f /\ f[p].kind = "file"

RECURSIVE WalkAcc(_, _, _)
WalkAcc(f, comps, cur) ==
    IF comps = <<>> THEN [ok |-> TRUE, path |-> cur]
    ELSE LET c == Head(comps) IN
         IF c = <<>> \/ c = <<".">> THEN WalkAcc(f, Tail(comps), cur)
         ELSE IF ~IsDirC(f, cur) THEN [ok |-> FALSE, path |-> cur]
         ELSE IF c = <<"..">> THEN WalkAcc(f, Tail(comps), Parent(cur))
         ELSE WalkAcc(f, Tail(comps), Append(cur, c))

\* The kernel's resolution of an absolute path string: every component is
\* looked up in a directory that exists.
Walk(f, s) == WalkAcc(f, Split(s), <<>>)

\* os.path.exists(s)
Exists(f, s) ==
    LET w == Walk(f, s) IN w.ok /\ (w.path = <<>> \/ w.path \in DOMAIN f)

\* os.path.isfile(s), Path.is_file()
IsFile(f, s) == LET w == Walk(f, s) IN w.ok /\ IsFileC(f, w.path)

\* Path.is_dir()
IsDir(f, s) == LET w == Walk(f, s) IN w.ok /\ IsDirC(f, w.path)

\* The file system without p and everything below it.
Without(f, p) == [q \in {x \in DOMAIN f : ~IsPrefix(p, x)} |-> f[q]]

\* os.remove(s): unlinks a file; raises IsADirectoryError on a directory.
OsRemove(f, s) ==
    LET w == Walk(f, s) IN
    IF w.ok /\ IsFileC(f, w.path)
    THEN [ok |-> TRUE, fs |-> Without(f, w.path), gone |-> {w.path}]
    ELSE [ok |-> FALSE, fs |-> f, gone |-> {}]

\* shutil.rmtree(s): removes a directory and all below it; raises
\* NotADirectoryError on a regular file and leaves it in place.
RmTree(f, s) ==
    LET w == Walk(f, s) IN
    IF w.ok /\ w.path # <<>> /\ IsDirC(f, w.path)
    THEN [ok |-> TRUE, fs |-> Without(f, w.path),
          gone |-> {x \in DOMAIN f : IsPrefix(w.path, x)}]
    ELSE [ok |-> FALSE, fs |-> f, gone |-> {}]

\* The proper prefixes of p, from depth d on.
Ancestors(p, d) == {SubSeq(p, 1, k) : k \in d..(Len(p) - 1)}

\* Path.rglob('*') filtered by is_file(): the regular files below dir,
\* relative to it (Path.relative_to).
RGlobFiles(f, dir) ==
    {SubSeq(q, Len(dir) + 1, Len(q)) :
        q \in {x \in DOMAIN f : StrictlyInside(dir, x) /\ f[x].kind = "file"}}

RECURSIVE SeqOfSet(_)
\* The elements of a finite set in the order the directory scan yields them.
SeqOfSet(S) ==
    IF S = {} THEN <<>>
    ELSE LET x == CHOOSE y \in S : TRUE IN <<x>> \o SeqOfSet(S \ {x})

\* ------------------------------------------------ the volumes at start-up

Tools == {"Hayabusa", "Chainsaw", "Takajo"}

BinaryPath(t) ==
    IF t = "Hayabusa" THEN HAYABUSA_PATH
    ELSE IF t = "Chainsaw" THEN CHAINSAW_PATH ELSE TAKAJO_PATH

P(s) == NormPath(s)

EvtxLog == <<"evtx1.evtx">>
ReportOfEvtx == PathJoin(RESULTS_DIR, EvtxLog \o <<ReportSuffix>>)
AnalysisOfEvtx == PathJoin(RESULTS_DIR, EvtxLog \o <<AnalysisSuffix>>)
BakReport == PathJoin(RESULTS_DIR, EvtxLog \o <<ReportSuffix, ".bak">>)
DataReport == PathJoin(DATA_DIR, <<"old", ReportSuffix>>)
SysReport == <<Sep, "etc", Sep, "sys", ReportSuffix>>
SysAnalysis == <<Sep, "etc", Sep, "sys", AnalysisSuffix>>
Passwd == <<Sep, "etc", Sep, "passwd">>
PasswdReport == <<Sep, "etc", Sep, "passwd", ReportSuffix>>

\* Artifacts left by runs before the server started carry writer 0.
Stale == File({0}, <<>>)

GoodLines == <<"1", "", "[2]", "  ">>
BadLines == <<"1", "{oops", "[2]">>

\* What is on the volumes whatever the earlier runs left.
BaseEntries ==
    {<<P(DATA_DIR), Dir>>, <<P(RESULTS_DIR), Dir>>, <<P(TOOLS_DIR), Dir>>,
     <<P(HAYABUSA_DIR), Dir>>, <<P(CHAINSAW_DIR), Dir>>, <<P(TAKAJO_DIR), Dir>>,
     <<P(<<Sep, "etc">>), Dir>>, <<P(Passwd), Stale>>,
     <<P(PathJoin(DATA_DIR, EvtxLog)), Stale>>,
     <<P(DataReport), Stale>>, <<P(SysReport), Stale>>, <<P(BakReport), Stale>>,
     <<P(PathJoin(RESULTS_DIR, <<"good", ".jsonl">>)), File({0}, GoodLines)>>,
     <<P(PathJoin(RESULTS_DIR, <<"bad", ".jsonl">>)), File({0}, BadLines)>>}

\* What an earlier run may have left at a location: nothing, a file, or a
\* directory holding one file.
Leftover(s, k) ==
    IF k = "file" THEN {<<P(s), Stale>>}
    ELSE IF k = "dir" THEN {<<P(s), Dir>>, <<Append(P(s), <<"old.csv">>), Stale>>}
    ELSE {}

\* What earlier runs left at the report and the analysis location of evtx1.
Layouts == {<<"absent", "absent">>, <<"file", "dir">>, <<"dir", "file">>}

FsOf(entries) == [p \in {e[1] : e \in entries} |->
                    (CHOOSE e \in entries : e[1] = p)[2]]

InitialFs ==
    {FsOf(BaseEntries
          \cup {<<P(BinaryPath(t)), Stale>> : t \in present}
          \cup Leftover(ReportOfEvtx, l[1])
          \cup Leftover(AnalysisOfEvtx, l[2])
          \cup Leftover(SysAnalysis, "dir")
          \cup Leftover(PasswdReport, "file")) :
        present \in {Tools, {}}, l \in Layouts}

\* ------------------------------------------------------ what clients send

LogFiles ==
    {EvtxLog, <<"missing.evtx">>,
     <<"..", Sep, "etc", Sep, "passwd">>,
     Passwd}

Keywords ==
    {<<"mimikatz">>,
     <<Sep, "..", Sep, "..", Sep, "..", Sep, "etc", Sep, "x">>}

ReportFiles ==
    {ReportOfEvtx,
     PathJoin(DATA_DIR, EvtxLog),
     PathJoin(RESULTS_DIR, <<"..", Sep, "old", ReportSuffix>>),
     SysReport,
     BakReport,
     PathJoin(RESULTS_DIR, <<"missing", ReportSuffix>>)}

AnalysisDirectories ==
    {EvtxLog \o <<AnalysisSuffix>>, <<"..">>, <<"%2e%2e">>}

FileNames ==
    {<<"summary.csv">>, <<"sub", Sep, "detail.txt">>,
     <<"..", Sep, "..", Sep, "etc", Sep, "passwd">>}

JsonFileNames ==
    {<<"good", ".jsonl">>, <<"bad", ".jsonl">>, <<"missing", ".jsonl">>,
     EvtxLog \o <<ReportSuffix, ".bak">>,
     <<"..", Sep, "old", ReportSuffix>>}

\* ------------------------------------------------- what the tools may do

Outs == {"o1"}
Errs == {"e1", "e2"}
ExitCodes == {0, 1}

\* The sets of files, relative to its output directory, takajo may write.
TakajoTrees ==
    {{}, {<< <<"summary.csv">> >>, << <<"sub">>, <<"detail.txt">> >>}}

\* ------------------------------------------------------------- requests

NoResp ==
    [status |-> 0, message |-> "", output_location |-> <<>>, tool |-> "",
     stdout |-> "", stderr |-> "", command_run |-> <<>>,
     generated_files |-> <<>>, body |-> <<>>, path |-> <<>>]

NoFs == [p \in {} |-> Dir]

IdleReq ==
    [pc |-> "idle", ep |-> "", log_file |-> <<>>, keyword |-> <<>>,
     hayabusa_report_file |-> <<>>, analysis_directory |-> <<>>,
     file_name |-> <<>>,
     in_path |-> <<>>, out_path |-> <<>>, cmd |-> <<>>,
     trace |-> <<>>, failed_in |-> "", fs0 |-> NoFs, deleted |-> {},
     spawned |-> 0, exec_cmd |-> <<>>, rid |-> 0, exit |-> 0,
     wrote |-> {}, tool_stdout |-> "", tool_stderr |-> "",
     cap_stdout |-> "", cap_stderr |-> "", resp |-> NoResp]

Init ==
    /\ fs \in InitialFs
    /\ req = [r \in Reqs |-> IdleReq]
    /\ loop = 0
    /\ nruns = 0

\* A handler is an `async def` that never awaits: once the event loop has
\* started it, no other handler runs until it has returned.
LoopFree == loop = 0

\* A client connects and sends a request; the server queues it on its lowest
\* free connection.
Arrive(r) ==
    /\ req[r].pc = "idle"
    /\ \A r2 \in Reqs : r2 < r => req[r2].pc # "idle"
    /\ req' = [req EXCEPT ![r].pc = "pending"]
    /\ UNCHANGED <<fs, loop, nruns>>

\* " ".join(cmd)
JoinArgs(cmd) ==
    IF cmd = <<>> THEN <<>>
    ELSE LET F[i \in 1..Len(cmd)] ==
                 IF i = 1 THEN cmd[1] ELSE F[i - 1] \o <<" ">> \o cmd[i]
         IN F[Len(cmd)]

OutputJsonl(log_file) == PathJoin(RESULTS_DIR, log_file \o <<ReportSuffix>>)
OutputCsv(log_file, keyword) ==
    PathJoin(RESULTS_DIR, log_file \o <<"-search-">> \o keyword \o <<".csv">>)
OutputJson(log_file) == PathJoin(RESULTS_DIR, log_file \o <<"-chainsaw-report.json">>)
OutputDirectory(report_path) == StrReplace(report_path, ReportSuffix, AnalysisSuffix)

HayabusaCmd(log_path, out) ==
    <<HAYABUSA_PATH, <<"json-timeline">>, <<"-f">>, log_path, <<"-o">>, out,
      <<"-L">>, <<"--no-wizard">> >>
SearchCmd(log_path, keyword, out) ==
    <<HAYABUSA_PATH, <<"search">>, <<"-f">>, log_path, <<"-k">>, keyword,
      <<"-o">>, out>>
ChainsawCmd(log_path, out) ==
    <<CHAINSAW_PATH, <<"hunt">>, <<"-f">>, log_path, <<"--json">>, <<"-o">>, out,
      <<"--no-banner">> >>
TakajoCmd(report_path, out) ==
    <<TAKAJO_PATH, <<"automagic">>, <<"-t">>, report_path, <<"-o">>, out>>

ToolOf(ep) ==
    IF ep = "takajo" THEN "Takajo"
    ELSE IF ep = "chainsaw" THEN "Chainsaw" ELSE "Hayabusa"

\* The handler starts: it reads the request and derives its paths.
Started(r, ep, rec) ==
    [rec EXCEPT !.pc = "Validating", !.ep = ep, !.trace = <<"Validating">>,
                !.fs0 = fs]

BeginHayabusa(r, lf) ==
    /\ LoopFree /\ req[r].pc = "pending" /\ nruns < MaxRuns
    /\ LET log_path == PathJoin(DATA_DIR, lf)
           out == OutputJsonl(lf)
       IN req' = [req EXCEPT ![r] = Started(r, "hayabusa",
                    [IdleReq EXCEPT !.log_file = lf, !.in_path = log_path,
                                    !.out_path = out,
                                    !.cmd = HayabusaCmd(log_path, out)])]
    /\ loop' = r
    /\ UNCHANGED <<fs, nruns>>

BeginSearch(r, lf, kw) ==
    /\ LoopFree /\ req[r].pc = "pending" /\ nruns < MaxRuns
    /\ LET log_path == PathJoin(DATA_DIR, lf)
           out == OutputCsv(lf, kw)
       IN req' = [req EXCEPT ![r] = Started(r, "search",
                    [IdleReq EXCEPT !.log_file = lf, !.keyword = kw,
                                    !.in_path = log_path, !.out_path = out,
                                    !.cmd = SearchCmd(log_path, kw, out)])]
    /\ loop' = r
    /\ UNCHANGED <<fs, nruns>>

BeginChainsaw(r, lf) ==
    /\ LoopFree /\ req[r].pc = "pending"
    /\ LET log_path == PathJoin(DATA_DIR, lf)
           out == OutputJson(lf)
       IN req' = [req EXCEPT ![r] = Started(r, "chainsaw",
                    [IdleReq EXCEPT !.log_file = lf, !.in_path = log_path,
                                    !.out_path = out,
                                    !.cmd = ChainsawCmd(log_path, out)])]
    /\ loop' = r
    /\ UNCHANGED <<fs, nruns>>

BeginTakajo(r, rf) ==
    /\ LoopFree /\ req[r].pc = "pending" /\ nruns < MaxRuns
    /\ LET report_path == AbsPath(rf)
           out == OutputDirectory(report_path)
       IN req' = [req EXCEPT ![r] = Started(r, "takajo",
                    [IdleReq EXCEPT !.hayabusa_report_file = rf,
                                    !.in_path = report_path, !.out_path = out,
                                    !.cmd = TakajoCmd(report_path, out)])]
    /\ loop' = r
    /\ UNCHANGED <<fs, nruns>>

\* The request body lacks a required field (keyword: str): the framework
\* answers 422 and the handler is never entered.
RejectShape(r) ==
    /\ LoopFree /\ req[r].pc = "pending"
    /\ req' = [req EXCEPT ![r] =
                 [IdleReq EXCEPT !.pc = "Failed", !.ep = "search",
                                 !.failed_in = "Shape", !.fs0 = fs,
                                 !.resp = [NoResp EXCEPT !.status = 422,
                                             !.message = "field required"]]]
    /\ loop' = r
    /\ UNCHANGED <<fs, nruns>>

Fail(q, st, msg, out, err) ==
    [q EXCEPT !.pc = "Failed", !.failed_in = q.pc,
              !.resp = [NoResp EXCEPT !.status = st, !.message = msg,
                                      !.stdout = out, !.stderr = err]]

\* The input check of a handler: a ".." in the client's text (in the absolute
\* path, for takajo) or no regular file at the input path.
InputRejected(f, q) ==
    IF q.ep = "takajo"
    THEN HasDotDot(q.in_path) \/ ~IsFile(f, q.in_path)
    ELSE HasDotDot(q.log_file) \/ ~IsFile(f, q.in_path)

\* The checks in the other order: the input first, the binary second.
ValidateOutcomeInputFirst(f, q) ==
    IF InputRejected(f, q) THEN 404
    ELSE IF ~Exists(f, BinaryPath(ToolOf(q.ep))) THEN 500
    ELSE 200

\* The two checks every handler opens with, in their order.
ValidateOutcome(f, q) ==
    IF ~Exists(f, BinaryPath(ToolOf(q.ep))) THEN 500
    ELSE IF InputRejected(f, q) THEN 404
    ELSE 200

\* What analyze_chainsaw returns: it builds the command and does not run it.
StubResponse(q) ==
    [NoResp EXCEPT !.status = 200,
                   !.message = "Chainsaw analysis STUB executed",
                   !.output_location = q.out_path, !.tool = "Chainsaw",
                   !.stdout = "This is a stub. Chainsaw was not actually executed.",
                   !.command_run = JoinArgs(q.cmd)]

Validate(r) ==
    /\ req[r].pc = "Validating"
    /\ LET q == req[r]
           v == ValidateOutcome(fs, q)
       IN req' = [req EXCEPT ![r] =
            IF v = 500 THEN Fail(q, 500, "binary not found", "", "")
            ELSE IF v = 404 THEN Fail(q, 404, "input file not found", "", "")
            ELSE IF q.ep = "chainsaw"
                 THEN [q EXCEPT !.pc = "Done", !.trace = Append(q.trace, "Done"),
                                !.resp = StubResponse(q)]
            ELSE [q EXCEPT !.pc = "Cleaning",
                           !.trace = Append(q.trace, "Cleaning")]]
    /\ UNCHANGED <<fs, loop, nruns>>

\* A handler that starts the tool without cleaning its output location.
CleanOutputSkipped(f, q) == [ok |-> TRUE, fs |-> f, gone |-> {}]

\* if os.path.exists(out): os.remove(out), or shutil.rmtree(out) for takajo.
CleanOutput(f, q) ==
    IF ~Exists(f, q.out_path) THEN [ok |-> TRUE, fs |-> f, gone |-> {}]
    ELSE IF q.ep = "takajo" THEN RmTree(f, q.out_path)
    ELSE OsRemove(f, q.out_path)

\* The output location is cleaned and subprocess.run starts the tool; a
\* removal that raises ends the request.
Clean(r) ==
    /\ req[r].pc = "Cleaning"
    /\ LET q == req[r]
           rm == CleanOutput(fs, q)
       IN IF rm.ok
          THEN /\ fs' = rm.fs
               /\ nruns' = nruns + 1
               /\ req' = [req EXCEPT ![r] =
                    [q EXCEPT !.pc = "Running",
                              !.trace = Append(q.trace, "Running"),
                              !.deleted = rm.gone,
                              !.spawned = q.spawned + 1,
                              !.exec_cmd = q.cmd,
                              !.rid = nruns + 1]]
          ELSE /\ req' = [req EXCEPT ![r] =
                    Fail(q, 500,
                         IF q.ep = "takajo"
                         THEN "Failed to remove old analysis directory"
                         ELSE "Internal Server Error", "", "")]
               /\ UNCHANGED <<fs, nruns>>
    /\ UNCHANGED loop

\* What the tool can write: the file at its output path, or (takajo) files
\* below its output directory.
ToolChoices(q) == IF q.ep = "takajo" THEN TakajoTrees ELSE {{}, {<<>>}}

\* The external tool, a black box: it leaves `tree` at the output location
\* when the location can be created, adding to what is there.
ToolWrites(f, q, tree) ==
    LET w == Walk(f, q.out_path)
        t == w.path
        files == {t \o rel : rel \in tree}
        dirs == UNION {Ancestors(x, Len(t)) : x \in files} \ files
        can == /\ w.ok /\ tree # {} /\ t # <<>>
               /\ IsDirC(f, Parent(t))
               /\ \A x \in files : ~IsDirC(f, x)
               /\ \A d \in dirs : ~IsFileC(f, d)
    IN IF ~can THEN [fs |-> f, wrote |-> {}]
       ELSE [fs |-> [p \in DOMAIN f \cup files \cup dirs |->
                       IF p \in files
                       THEN File((IF p \in DOMAIN f THEN f[p].writers ELSE {})
                                 \cup {q.rid}, <<>>)
                       ELSE IF p \in dirs THEN Dir ELSE f[p]],
             wrote |-> files]

\* subprocess.run without check=True: the exit code is never looked at.
AfterRunUnchecked(q, code, out, err) ==
    [q EXCEPT !.pc = "Collecting", !.trace = Append(q.trace, "Collecting"),
              !.cap_stdout = out, !.cap_stderr = err]

\* A failure report that drops the tool's stderr.
AfterRunLosesStderr(q, code, out, err) ==
    IF code = 0
    THEN [q EXCEPT !.pc = "Collecting", !.trace = Append(q.trace, "Collecting"),
                   !.cap_stdout = out, !.cap_stderr = err]
    ELSE Fail(q, 500, "analysis failed", out, "")

\* subprocess.run(..., check=True) returns, or raises CalledProcessError on a
\* nonzero exit code, which the handler turns into a 500 with the output.
AfterRun(q, code, out, err) ==
    IF code = 0
    THEN [q EXCEPT !.pc = "Collecting", !.trace = Append(q.trace, "Collecting"),
                   !.cap_stdout = out, !.cap_stderr = err]
    ELSE Fail(q, 500, "analysis failed", out, err)

\* The tool exits. What it really did is kept in exit, wrote, tool_stdout and
\* tool_stderr, beside what the handler makes of it.
ToolExit(r, code, out, err, tree) ==
    /\ req[r].pc = "Running"
    /\ LET q == req[r]
           tw == ToolWrites(fs, q, tree)
       IN /\ fs' = tw.fs
          /\ req' = [req EXCEPT ![r] =
                [AfterRun(q, code, out, err) EXCEPT
                    !.exit = code, !.wrote = tw.wrote,
                    !.tool_stdout = out, !.tool_stderr = err]]
    /\ UNCHANGED <<loop, nruns>>

\* The scan of takajo's output directory.
GeneratedFiles(f, out) ==
    IF IsDir(f, out)
    THEN LET rels == SeqOfSet(RGlobFiles(f, Walk(f, out).path))
         IN [i \in 1..Len(rels) |-> StrReplace(RelStr(rels[i]), "\\", Sep)]
    ELSE <<>>

AnalysisResponse(f, q) ==
    [NoResp EXCEPT !.status = 200, !.message = "analysis complete",
                   !.output_location = q.out_path,
                   !.tool = ToolOf(q.ep),
                   !.stdout = q.cap_stdout, !.stderr = q.cap_stderr,
                   !.command_run = JoinArgs(q.cmd),
                   !.generated_files =
                       IF q.ep = "takajo" THEN GeneratedFiles(f, q.out_path)
                       ELSE <<>>]

Collect(r) ==
    /\ req[r].pc = "Collecting"
    /\ req' = [req EXCEPT ![r] =
                 [req[r] EXCEPT !.pc = "Done",
                                !.trace = Append(req[r].trace, "Done"),
                                !.resp = AnalysisResponse(fs, req[r])]]
    /\ UNCHANGED <<fs, loop, nruns>>

\* The response is sent and the event loop is free again.
Respond(r) ==
    /\ req[r].pc \in {"Done", "Failed"}
    /\ req' = [req EXCEPT ![r] = IdleReq]
    /\ loop' = 0
    /\ UNCHANGED <<fs, nruns>>

\* ------------------------------------------------------ the GET handlers

\* raise HTTPException(status_code, detail) inside the handler's try block.
Raise(st, detail) == [raised |-> TRUE, status |-> st, detail |-> detail]
NoRaise == [raised |-> FALSE, status |-> 200, detail |-> ""]

\* except Exception as e: raise HTTPException(500, f"Internal server error: {e}").
\* HTTPException is an Exception, so the handler's own 403 and 404 are caught too.
ExceptException(e) ==
    IF e.raised
    THEN [status |-> 500, message |-> "Internal server error: " \o e.detail]
    ELSE [status |-> 200, message |-> ""]

\* get_result_file up to its return: what the try block raises, and the path.
ResultFileTry(f, analysis_directory, file_name) ==
    LET ad == Unquote(analysis_directory)
        fn == Unquote(file_name)
        base_path == NormPath(RESULTS_DIR)
        analysis_path == NormPath(PathJoin(RESULTS_DIR, ad))
        file_path == NormPath(PathJoin(ToStr(analysis_path), fn))
    IN [exc |-> IF ~StrictlyInside(base_path, analysis_path)
                   \/ ~StrictlyInside(base_path, file_path)
                THEN Raise(403, "403: Forbidden")
                ELSE IF ~IsFileC(f, file_path)
                THEN Raise(404, "404: File not found")
                ELSE NoRaise,
        path |-> file_path]

\* The response of GET /results_file/{analysis_directory}/{file_name}.
ResultFileResponse(f, analysis_directory, file_name) ==
    LET t == ResultFileTry(f, analysis_directory, file_name)
        e == ExceptException(t.exc)
    IN [NoResp EXCEPT !.status = e.status, !.message = e.message,
                      !.path = IF e.status = 200 THEN t.path ELSE <<>>]

GetResultFile(r, ad, fn) ==
    /\ LoopFree /\ req[r].pc = "pending"
    /\ LET resp == ResultFileResponse(fs, ad, fn)
       IN req' = [req EXCEPT ![r] =
            [IdleReq EXCEPT !.pc = IF resp.status = 200 THEN "Done" ELSE "Failed",
                            !.ep = "results_file", !.fs0 = fs,
                            !.analysis_directory = ad, !.file_name = fn,
                            !.resp = resp]]
    /\ loop' = r
    /\ UNCHANGED <<fs, nruns>>

\* line.strip() is empty
IsBlank(line) == line \in {"", "  "}

\* The lines json.loads accepts, and the values it returns.
JsonValid == {"1", "[2]"}
JsonLoads(line) == IF line = "1" THEN 1 ELSE <<2>>

RECURSIVE ReadJsonLines(_, _)
\* The read loop: blank lines skipped, the first malformed line raises.
ReadJsonLines(lines, acc) ==
    IF lines = <<>> THEN [ok |-> TRUE, values |-> acc]
    ELSE IF IsBlank(Head(lines)) THEN ReadJsonLines(Tail(lines), acc)
    ELSE IF Head(lines) \notin JsonValid THEN [ok |-> FALSE, values |-> <<>>]
    ELSE ReadJsonLines(Tail(lines), Append(acc, JsonLoads(Head(lines))))

\* file_name.endsWith('.jsonl'): str has no attribute endsWith.
EndsWithJsonl(file_name) == "AttributeError"

\* get_result_file_json up to its return.
ResultFileJsonTry(f, file_name) ==
    LET fn == Unquote(file_name)
        base_path == NormPath(RESULTS_DIR)
        file_path == NormPath(PathJoin(RESULTS_DIR, fn))
    IN IF ~StrictlyInside(base_path, file_path)
       THEN [exc |-> Raise(403, "403: Forbidden"), body |-> <<>>]
       ELSE IF ~IsFileC(f, file_path)
       THEN [exc |-> Raise(404, "404: JSONL file not found"), body |-> <<>>]
       ELSE IF EndsWithJsonl(fn) = "AttributeError"
       THEN [exc |-> Raise(500, "'str' object has no attribute 'endsWith'"),
             body |-> <<>>]
       ELSE IF EndsWithJsonl(fn) = FALSE
       THEN [exc |-> Raise(404, "404: JSONL file not found"), body |-> <<>>]
       ELSE LET d == ReadJsonLines(f[file_path].lines, <<>>)
            IN IF d.ok THEN [exc |-> NoRaise, body |-> d.values]
               ELSE [exc |-> Raise(500, "JSONDecodeError"), body |-> <<>>]

\* The response of GET /results_file_json/{file_name}.
ResultFileJsonResponse(f, file_name) ==
    LET t == ResultFileJsonTry(f, file_name)
        e == ExceptException(t.exc)
    IN [NoResp EXCEPT !.status = e.status, !.message = e.message,
                      !.body = IF e.status = 200 THEN t.body ELSE <<>>]

GetResultFileJson(r, fn) ==
    /\ LoopFree /\ req[r].pc = "pending"
    /\ LET resp == ResultFileJsonResponse(fs, fn)
       IN req' = [req EXCEPT ![r] =
            [IdleReq EXCEPT !.pc = IF resp.status = 200 THEN "Done" ELSE "Failed",
                            !.ep = "results_file_json", !.fs0 = fs,
                            !.file_name = fn, !.resp = resp]]
    /\ loop' = r
    /\ UNCHANGED <<fs, nruns>>

\* -------------------------------------------------------- specification

Next ==
    \E r \in Reqs :
        \/ Arrive(r)
        \/ RejectShape(r)
        \/ \E lf \in LogFiles : BeginHayabusa(r, lf)
        \/ \E lf \in LogFiles, kw \in Keywords : BeginSearch(r, lf, kw)
        \/ \E lf \in LogFiles : BeginChainsaw(r, lf)
        \/ \E rf \in ReportFiles : BeginTakajo(r, rf)
        \/ Validate(r)
        \/ Clean(r)
        \/ \E code \in ExitCodes, out \in Outs, err \in Errs,
              tree \in ToolChoices(req[r]) : ToolExit(r, code, out, err, tree)
        \/ Collect(r)
        \/ Respond(r)
        \/ \E ad \in AnalysisDirectories, fn \in FileNames : GetResultFile(r, ad, fn)
        \/ \E fn \in JsonFileNames : GetResultFileJson(r, fn)

Spec == Init /\ [][Next]_vars

\* ---------------------------------------------------------------- claims

AnalyzeEps == {"hayabusa", "search", "chainsaw", "takajo"}
Ended(q) == q.pc \in {"Done", "Failed"}

\* Strictly inside the data root or the results root.
InsideRoots(p) ==
    \/ StrictlyInside(NormPath(DATA_DIR), p)
    \/ StrictlyInside(NormPath(RESULTS_DIR), p)

\* C1: every path an analyze handler deletes, and the input and the output
\* path it hands to the tool it starts, lies strictly inside the data root or
\* the results root.
C1_PathsStayInsideRoots ==
    \A r \in Reqs :
        LET q == req[r] IN
        q.ep \in AnalyzeEps =>
            /\ \A p \in q.deleted : InsideRoots(p)
            /\ q.spawned > 0 =>
                  /\ InsideRoots(NormPath(q.in_path))
                  /\ InsideRoots(NormPath(q.out_path))

\* The status GET /results_file owes a request, by where its path resolves.
ResultFileStatusOwed(f, ad, fn) ==
    LET base == NormPath(RESULTS_DIR)
        dir == NormPath(PathJoin(RESULTS_DIR, Unquote(ad)))
        file == NormPath(PathJoin(ToStr(dir), Unquote(fn)))
    IN IF ~StrictlyInside(base, dir) \/ ~StrictlyInside(base, file) THEN 403
       ELSE IF ~IsFileC(f, file) THEN 404
       ELSE 200

\* C2: GET /results_file answers 403 when the resolved directory or file is
\* not strictly inside the results root, 404 when it is inside and no regular
\* file, and serves the file otherwise.
C2_ResultFileStatus ==
    \A r \in Reqs :
        LET q == req[r] IN
        (q.ep = "results_file" /\ Ended(q)) =>
            q.resp.status = ResultFileStatusOwed(q.fs0, q.analysis_directory, q.file_name)

\* C4: GET /results_file_json on a regular .jsonl file inside the results root
\* answers with the decoded values of its non-blank lines, in order, when all
\* of them are valid, and with an error when one is malformed.
C4_JsonlRoundTrip ==
    \A r \in Reqs :
        LET q == req[r]
            fn == Unquote(q.file_name)
            file == NormPath(PathJoin(RESULTS_DIR, fn))
        IN (/\ q.ep = "results_file_json" /\ Ended(q)
            /\ StrictlyInside(NormPath(RESULTS_DIR), file)
            /\ IsFileC(q.fs0, file)
            /\ fn[Len(fn)] \in {".jsonl", ReportSuffix}) =>
               LET d == ReadJsonLines(q.fs0[file].lines, <<>>) IN
               IF d.ok THEN q.resp.status = 200 /\ q.resp.body = d.values
               ELSE q.resp.status # 200

\* What lies at or below the output location of q in file system f.
AtOutput(f, q) ==
    LET w == Walk(f, q.out_path) IN
    IF w.ok THEN {p \in DOMAIN f : IsPrefix(w.path, p)} ELSE {}

RunsTool(q) == q.ep \in {"hayabusa", "search", "takajo"}

\* C3: when a handler starts the tool nothing exists at its output location,
\* and once the tool has exited everything at the output location was written
\* by this run alone: each file it wrote carries this run as its only writer.
C3_OutputIsFreshRunOnly ==
    \A r \in Reqs :
        LET q == req[r] IN
        RunsTool(q) =>
            /\ q.pc = "Running" => ~Exists(fs, q.out_path)
            /\ (q.spawned > 0 /\ q.pc \in {"Collecting", "Done", "Failed"}) =>
                  /\ \A p \in AtOutput(fs, q) : fs[p].writers \subseteq {q.rid}
                  /\ \A p \in q.wrote : p \in DOMAIN fs /\ fs[p].writers = {q.rid}

\* C3 witness: the second run of an analysis has written its output where the
\* first run's output, removed by the handler, had been.
C3_Witness ==
    \E r \in Reqs :
        LET q == req[r] IN
        /\ RunsTool(q) /\ q.pc = "Collecting" /\ q.rid = 2
        /\ q.wrote # {}
        /\ \E p \in q.deleted : q.fs0[p].kind = "file" /\ q.fs0[p].writers = {1}

\* The trace of a request that went through every state.
FullTrace == <<"Validating", "Cleaning", "Running", "Collecting", "Done">>

\* What Done means for a handler that runs its tool: every state in order,
\* what was at the output location removed, the tool run once with the
\* command line reported, and exit code 0.
DoneAfterRun(q) ==
    /\ q.trace = FullTrace
    /\ AtOutput(q.fs0, q) \subseteq q.deleted
    /\ q.spawned = 1 /\ q.exit = 0
    /\ q.resp.status = 200
    /\ q.resp.command_run = JoinArgs(q.exec_cmd)

\* C5 as stated: every analyze request that ends Done, the hunt (chainsaw)
\* request included, went through Validating, Cleaning, Running and
\* Collecting and ran its tool once with exit code 0.
C5_DoneOnlyAfterRun ==
    \A r \in Reqs :
        LET q == req[r] IN
        (q.ep \in AnalyzeEps /\ q.pc = "Done") => DoneAfterRun(q)

\* C5 amended: that holds of the timeline, search and aggregator requests;
\* a hunt request ends Done straight from Validating, with nothing deleted,
\* nothing run and the file system as it was.
C5_DoneOnlyAfterRunExceptStub ==
    \A r \in Reqs :
        LET q == req[r] IN
        (q.ep \in AnalyzeEps /\ q.pc = "Done") =>
            IF q.ep = "chainsaw"
            THEN /\ q.trace = <<"Validating", "Done">>
                 /\ q.spawned = 0 /\ q.deleted = {} /\ fs = q.fs0
                 /\ q.resp.status = 200
            ELSE DoneAfterRun(q)

\* C5 witness: a timeline request is Done after its stale report was removed.
C5_Witness ==
    \E r \in Reqs :
        /\ req[r].ep = "hayabusa" /\ req[r].pc = "Done"
        /\ req[r].deleted # {}

\* C6: a tool that ran and exited nonzero ends the request Failed with status
\* 500 and the tool's stderr and stdout in the detail; no result is returned.
C6_NonzeroExitFails ==
    \A r \in Reqs :
        LET q == req[r] IN
        (q.spawned > 0 /\ q.pc # "Running" /\ q.exit # 0) =>
            /\ q.pc = "Failed" /\ q.failed_in = "Running"
            /\ q.resp.status = 500
            /\ q.resp.stderr = q.tool_stderr
            /\ q.resp.stdout = q.tool_stdout
            /\ q.resp.output_location = <<>>
            /\ q.resp.generated_files = <<>>
            /\ q.resp.command_run = <<>>

\* C6 witness: takajo wrote files, exited nonzero, and the request Failed.
C6_Witness ==
    \E r \in Reqs :
        /\ req[r].ep = "takajo" /\ req[r].pc = "Failed"
        /\ req[r].exit # 0 /\ req[r].wrote # {}
        /\ req[r].tool_stderr = "e2"

\* The input of q is a traversal attempt or no regular file.
BadInput(q) ==
    IF q.ep = "takajo" THEN ~IsFile(q.fs0, AbsPath(q.hayabusa_report_file))
    ELSE HasDotDot(q.log_file) \/ ~IsFile(q.fs0, PathJoin(DATA_DIR, q.log_file))

\* C7: a request that fails before Cleaning (required field absent, binary
\* missing, traversal attempt, input no regular file) has deleted nothing,
\* started nothing and left the file system as it was; a ".." in log_file and
\* an input path that is no regular file do fail the request there, and a
\* missing binary gives 500 whatever the input.
C7_ValidationFailsFirst ==
    \A r \in Reqs :
        LET q == req[r] IN
        (q.ep \in AnalyzeEps /\ q.pc # "Validating") =>
            /\ (q.pc = "Failed" /\ q.failed_in \in {"Shape", "Validating"}) =>
                  fs = q.fs0 /\ q.deleted = {} /\ q.spawned = 0
            /\ (q.failed_in # "Shape" /\ ~Exists(q.fs0, BinaryPath(ToolOf(q.ep)))) =>
                  q.pc = "Failed" /\ q.failed_in = "Validating" /\ q.resp.status = 500
            /\ (q.failed_in # "Shape" /\ BadInput(q)) =>
                  q.pc = "Failed" /\ q.failed_in = "Validating"

\* C7 witness: the binary is missing, the input is a traversal attempt, and
\* the request has failed in Validating with a stale artifact still in place.
C7_Witness ==
    \E r \in Reqs :
        LET q == req[r] IN
        /\ q.ep = "hayabusa" /\ q.pc = "Failed" /\ q.failed_in = "Validating"
        /\ HasDotDot(q.log_file)
        /\ ~Exists(fs, HAYABUSA_PATH)
        /\ Exists(fs, ReportOfEvtx)

\* The path string ends with the report suffix.
CarriesSuffix(s) == s # <<>> /\ s[Len(s)] = ReportSuffix

\* C8: a takajo request whose report path does not end with the report suffix
\* is rejected with nothing deleted and the tool not run; one whose path does
\* gets as output directory the path with that suffix replaced.
C8_SuffixRequired ==
    \A r \in Reqs :
        LET q == req[r]
            report_path == AbsPath(q.hayabusa_report_file)
        IN q.ep = "takajo" =>
            IF CarriesSuffix(report_path)
            THEN q.out_path = SubSeq(report_path, 1, Len(report_path) - 1)
                                \o <<AnalysisSuffix>>
            ELSE q.spawned = 0 /\ q.deleted = {} /\ q.pc # "Done" /\ fs = q.fs0

\* C9: after a successful takajo run generated_files lists exactly the regular
\* files below the output directory, each once, as relative paths, and GET
\* /results_file/{name of the output directory}/{p} serves each listed p.
C9_GeneratedFilesFetchable ==
    \A r \in Reqs :
        LET q == req[r] IN
        (q.ep = "takajo" /\ q.pc = "Done") =>
            LET out == Walk(fs, q.out_path).path
                gf == q.resp.generated_files
                files == RGlobFiles(fs, out)
            IN /\ {gf[i] : i \in 1..Len(gf)} = {RelStr(rel) : rel \in files}
               /\ Len(gf) = Cardinality(files)
               /\ \A i \in 1..Len(gf) :
                    LET got == ResultFileResponse(fs, out[Len(out)], gf[i])
                    IN got.status = 200 /\ got.path = out \o Split(gf[i])

\* C10: analyze requests are request-parallel: while the subprocess of one
\* request is in flight, the handler of another request that is waiting can
\* start, so that it can have its own subprocess in flight too.
C10_RequestParallel ==
    \A r1 \in Reqs, r2 \in Reqs :
        (r1 # r2 /\ req[r1].pc = "Running" /\ req[r2].pc = "pending"
            /\ nruns < MaxRuns) =>
            ENABLED BeginHayabusa(r2, EvtxLog)

====
